---- MODULE Spec2Model ----
(***************************************************************************)
(* Gerenciador de Tarefas ("Lista de Tarefas.py"): the task store, its     *)
(* lifecycle operations and the retention sweep, as a state machine.       *)
(*                                                                         *)
(* Text typed by the user is a sequence of one-character strings, so that  *)
(* strip / capitalize / title / lower are computed character by character  *)
(* as Python computes them.  Time is a count of seconds; an ISO timestamp  *)
(* is the pair <<date, time of day>>.                                      *)
(***************************************************************************)
EXTENDS Integers, Sequences, FiniteSets, TLC

VARIABLES
    TASKS,            \* active list (global TASKS)
    ARCHIVED_TASKS,   \* archived list (global ARCHIVED_TASKS)
    ID_COUNTER,       \* next id (global ID_COUNTER)
    fileTasks,        \* content of tarefas.json
    fileArchived,     \* content of tarefas_arquivadas.json
    clock,            \* datetime.now(), in seconds
    pc,               \* position of main(): "load", "sweep", "menu", "exit"
    last,             \* the handler that ran last, its argument and what it reported
    out,              \* the task details the last handler displayed
    ever,             \* history: ids whose status has been "Concluída" at some point
    salvo             \* history: the lists the last call of salvar_dados() was given

vars ==
    <<TASKS, ARCHIVED_TASKS, ID_COUNTER, fileTasks, fileArchived, clock, pc, last, out,
      ever, salvo>>

store == <<TASKS, ARCHIVED_TASKS, ID_COUNTER>>

-----------------------------------------------------------------------------
(* Bounds of the model.                                                    *)

MaxTasks == 2

MaxTasksUrg == 3

(* Program constants.                                                      *)

RetentionDays == 7

SecondsPerDay == 86400

-----------------------------------------------------------------------------
(* Characters and Python's str methods.                                    *)

LowerChars == <<"a","b","c","d","e","f","g","h","i","l","m","n","o","r","s","t","u","x","é","í">>

UpperChars == <<"A","B","C","D","E","F","G","H","I","L","M","N","O","R","S","T","U","X","É","Í">>

CharIndex(chars, c) ==
    IF \E i \in 1..Len(chars) : chars[i] = c
    THEN CHOOSE i \in 1..Len(chars) : chars[i] = c
    ELSE 0

IsCased(c) == CharIndex(LowerChars, c) > 0 \/ CharIndex(UpperChars, c) > 0

ToLower(c) == IF CharIndex(UpperChars, c) > 0 THEN LowerChars[CharIndex(UpperChars, c)] ELSE c

ToUpper(c) == IF CharIndex(LowerChars, c) > 0 THEN UpperChars[CharIndex(LowerChars, c)] ELSE c

\* str.lower()
lower(s) == [i \in 1..Len(s) |-> ToLower(s[i])]

\* str.capitalize(): first character upper-cased, the rest lower-cased
capitalize(s) == [i \in 1..Len(s) |-> IF i = 1 THEN ToUpper(s[i]) ELSE ToLower(s[i])]

\* str.title(): a cased character is upper-cased when it follows an uncased
\* character (or starts the string), lower-cased otherwise
title(s) ==
    [i \in 1..Len(s) |->
        IF i = 1 \/ ~IsCased(s[IF i = 1 THEN 1 ELSE i - 1])
        THEN ToUpper(s[i]) ELSE ToLower(s[i])]

\* str.strip(): leading and trailing blanks removed
strip(s) ==
    LET keep == {i \in 1..Len(s) : s[i] # " "}
    IN  IF keep = {} THEN <<>>
        ELSE LET lo == CHOOSE i \in keep : \A j \in keep : i <= j
                 hi == CHOOSE i \in keep : \A j \in keep : j <= i
             IN  [i \in 1..(hi - lo + 1) |-> s[lo + i - 1]]

-----------------------------------------------------------------------------
(* String constants of the program.                                        *)

Urgente == <<"U","r","g","e","n","t","e">>

Alta == <<"A","l","t","a">>

Media == <<"M","é","d","i","a">>

Baixa == <<"B","a","i","x","a">>

Email == <<"E","-","m","a","i","l">>

Telefone == <<"T","e","l","e","f","o","n","e">>

ChamadoDoSistema == <<"C","h","a","m","a","d","o"," ","d","o"," ","S","i","s","t","e","m","a">>

PRIORITIES == <<Urgente, Alta, Media, Baixa>>

PRIORITY_ORDER == PRIORITIES

OrigensValidas == <<Email, Telefone, ChamadoDoSistema>>

ChamadoAliases ==
    { <<"c","h","a","m","a","d","o">>,
      <<"c","h","a","m","a","d","o","d","o","s","i","s","t","e","m","a">>,
      <<"c","h","a","m","a","d","o"," ","d","o"," ","s","i","s","t","e","m","a">> }

Range(f) == {f[i] : i \in DOMAIN f}

None == <<>>

-----------------------------------------------------------------------------
(* Time.                                                                   *)

\* datetime.isoformat(): date part and time-of-day part
isoformat(t) == <<t \div SecondsPerDay, t % SecondsPerDay>>

agora_iso == isoformat(clock)

\* datetime.fromisoformat(): <<seconds>>, or None when the text is no timestamp
parse_iso(dt_str) ==
    IF Len(dt_str) = 2 THEN <<dt_str[1] * SecondsPerDay + dt_str[2]>> ELSE None

Retention == RetentionDays * SecondsPerDay

\* the hours taken from the whole span instead of from dur.seconds
Duracao_horas_totais(t) ==
    IF t.data_conclusao = None THEN None
    ELSE LET dt_inicio == parse_iso(t.data_criacao)
             dt_fim == parse_iso(t.data_conclusao)
         IN  IF dt_inicio = None \/ dt_fim = None THEN None
             ELSE LET dur == dt_fim[1] - dt_inicio[1]
                      dias == dur \div SecondsPerDay
                      horas == dur \div 3600
                      resto == dur % 3600
                      minutos == resto \div 60
                      segundos == resto % 60
                  IN  <<dias, horas, minutos, segundos>>

\* dur.days and divmod(dur.seconds, 3600), divmod(resto, 60) of the span
\* between creation and completion; None when it is not displayed
Duracao(t) ==
    IF t.data_conclusao = None THEN None
    ELSE LET dt_inicio == parse_iso(t.data_criacao)
             dt_fim == parse_iso(t.data_conclusao)
         IN  IF dt_inicio = None \/ dt_fim = None THEN None
             ELSE LET dur == dt_fim[1] - dt_inicio[1]
                      dias == dur \div SecondsPerDay
                      seconds == dur % SecondsPerDay
                      horas == seconds \div 3600
                      resto == seconds % 3600
                      minutos == resto \div 60
                      segundos == resto % 60
                  IN  <<dias, horas, minutos, segundos>>

\* mostrar_detalhes_tarefa(t): the fields printed and the execution time
mostrar_detalhes_tarefa(t) == [tarefa |-> t, tempo |-> Duracao(t)]

-----------------------------------------------------------------------------
(* Persistence.                                                            *)

MissingFile == [kind |-> "missing", data |-> <<>>]

\* a dump that writes null for every completion date
JsonDump_sem_conclusao(ts) ==
    [kind |-> "json",
     data |-> [i \in 1..Len(ts) |->
                <<ts[i].id, ts[i].titulo, ts[i].descricao, ts[i].prioridade,
                  ts[i].status, ts[i].origem, ts[i].data_criacao, None>>]]

\* json.dump of a list of task dicts: each object as its values in key order
JsonDump(ts) ==
    [kind |-> "json",
     data |-> [i \in 1..Len(ts) |->
                <<ts[i].id, ts[i].titulo, ts[i].descricao, ts[i].prioridade,
                  ts[i].status, ts[i].origem, ts[i].data_criacao, ts[i].data_conclusao>>]]

\* json.load of such a file
JsonLoad(f) ==
    [i \in 1..Len(f.data) |->
        [id |-> f.data[i][1], titulo |-> f.data[i][2], descricao |-> f.data[i][3],
         prioridade |-> f.data[i][4], status |-> f.data[i][5], origem |-> f.data[i][6],
         data_criacao |-> f.data[i][7], data_conclusao |-> f.data[i][8]]]

ensure_files_exist(f) == IF f.kind = "missing" THEN JsonDump(<<>>) ELSE f

\* a file whose write stopped between two characters: json.load raises
\* JSONDecodeError
CorruptFile == [kind |-> "corrupt", data |-> <<>>]

\* a file whose write stopped inside the bytes of one character: reading it
\* raises UnicodeDecodeError, which carregar_dados() does not catch
UndecodableFile == [kind |-> "undecodable", data |-> <<>>]

\* the characters json.dump writes as more than one byte (ensure_ascii=False)
MultibyteChars == { "é", "í", "É", "Í" }

TemMultibyte(txt) == \E i \in 1..Len(txt) : txt[i] \in MultibyteChars

\* TRUE when the dump of the list holds a character of more than one byte
DumpTemMultibyte(ts) ==
    \E i \in 1..Len(ts) :
        \/ ts[i].status \in {"Concluída", "Excluída"}
        \/ TemMultibyte(ts[i].titulo) \/ TemMultibyte(ts[i].descricao)
        \/ TemMultibyte(ts[i].prioridade) \/ TemMultibyte(ts[i].origem)

\* open + json.load of a file whose bytes decode, with [] when the text is
\* no JSON
ler_json(f) == IF f.kind = "json" THEN JsonLoad(f) ELSE <<>>

MaxOf(S) == IF S = {} THEN 0 ELSE CHOOSE m \in S : \A x \in S : x <= m

-----------------------------------------------------------------------------
(* Validation.                                                             *)

validar_prioridade(prio) == capitalize(prio) \in Range(PRIORITIES)

validar_origem(orig) == capitalize(orig) \in {capitalize(v) : v \in Range(OrigensValidas)}

-----------------------------------------------------------------------------
(* History and labels.                                                     *)

Label(op, arg, res) == [op |-> op, arg |-> arg, res |-> res]

ConcluidasIn(ts) == {ts[i].id : i \in {j \in 1..Len(ts) : ts[j].status = "Concluída"}}

\* no call of salvar_dados() has returned yet, or the last one raised
NaoSalvo == [ok |-> FALSE, tasks |-> <<>>, archived |-> <<>>]

\* the steps in which salvar_dados() ran: options 9 and 0, a sweep that
\* moved something, and the maintenance helper
Salvou ==
    \/ last'.op \in {"salvar", "sair", "limpar"}
    \/ last'.op = "arquivar" /\ last'.res \in {"ok", "erro"}

Observe ==
    /\ ever' = ever \cup ConcluidasIn(TASKS') \cup ConcluidasIn(ARCHIVED_TASKS')
    /\ salvo' = IF ~Salvou THEN salvo
                ELSE IF last'.res = "ok"
                THEN [ok |-> TRUE, tasks |-> TASKS', archived |-> ARCHIVED_TASKS']
                ELSE NaoSalvo

-----------------------------------------------------------------------------
Init ==
    /\ TASKS = <<>>
    /\ ARCHIVED_TASKS = <<>>
    /\ ID_COUNTER = 1
    /\ fileTasks = MissingFile
    /\ fileArchived = MissingFile
    /\ clock = 0
    /\ pc = "load"
    /\ last = Label("init", 0, "init")
    /\ out = <<>>
    /\ ever = {}
    /\ salvo = NaoSalvo

-----------------------------------------------------------------------------
(* int(input().strip()): the typed id.                                     *)

DigitChars == <<"0","1","2","3","4","5","6","7","8","9">>

IsDigits(s) == Len(s) > 0 /\ \A i \in 1..Len(s) : CharIndex(DigitChars, s[i]) > 0

RECURSIVE DigitsValue(_)
DigitsValue(s) ==
    IF Len(s) = 0 THEN 0
    ELSE 10 * DigitsValue(SubSeq(s, 1, Len(s) - 1)) + (CharIndex(DigitChars, s[Len(s)]) - 1)

\* TRUE when int() accepts the text
int_ok(s) ==
    LET t == strip(s)
    IN  \/ IsDigits(t)
        \/ Len(t) > 1 /\ t[1] \in {"-", "+"} /\ IsDigits(Tail(t))

\* the value int() returns
int_val(s) ==
    LET t == strip(s)
    IN  IF t[1] = "-" THEN 0 - DigitsValue(Tail(t))
        ELSE IF t[1] = "+" THEN DigitsValue(Tail(t))
        ELSE DigitsValue(t)

-----------------------------------------------------------------------------
(* main(): load, then the startup sweep, then the menu.                    *)

\* where a write of salvar_dados() may raise
Falhas == { "nenhuma", "tarefas", "arquivadas" }

\* how the write that raises leaves its file: not opened, cut between two
\* characters, or cut inside the bytes of one character
Cortes == { "recusado", "cortado", "cortado_no_byte" }

\* the file a failed write of the list ts leaves in place of f
ArquivoAposFalha(f, como) ==
    IF como = "recusado" THEN f
    ELSE IF como = "cortado" THEN CorruptFile
    ELSE UndecodableFile

\* salvar_dados() with a write that raises: the file being written is left
\* as the failure leaves it, the file after it is not reached
salvar_dados_falha(ts, as, onde, como) ==
    IF onde = "tarefas"
    THEN /\ como = "cortado_no_byte" => DumpTemMultibyte(ts)
         /\ fileTasks' = ArquivoAposFalha(fileTasks, como)
         /\ UNCHANGED fileArchived
    ELSE /\ como = "cortado_no_byte" => DumpTemMultibyte(as)
         /\ fileTasks' = JsonDump(ts)
         /\ fileArchived' = ArquivoAposFalha(fileArchived, como)

\* ensure_files_exist() creates each missing file with a write of [] that
\* may raise like any other; nothing catches it, so main() ends at the load.
\* A file that exists is not written, whatever onde says.
carregar_dados(onde, como) ==
    /\ pc = "load"
    /\ como # "cortado_no_byte"
    /\ IF onde = "tarefas" /\ fileTasks.kind = "missing"
       THEN \* the first file is not created: the second is not reached
            /\ fileTasks' = ArquivoAposFalha(fileTasks, como)
            /\ UNCHANGED <<fileArchived, store>>
            /\ pc' = "crashed"
            /\ last' = Label("carregar", 0, "erro")
       ELSE IF onde = "arquivadas" /\ fileArchived.kind = "missing"
       THEN /\ fileTasks' = ensure_files_exist(fileTasks)
            /\ fileArchived' = ArquivoAposFalha(fileArchived, como)
            /\ UNCHANGED store
            /\ pc' = "crashed"
            /\ last' = Label("carregar", 0, "erro")
       ELSE LET fT == ensure_files_exist(fileTasks)
                fA == ensure_files_exist(fileArchived)
                loaded == ler_json(fT) \o ler_json(fA)
                max_id == MaxOf({loaded[i].id : i \in 1..Len(loaded)} \cup {0})
            IN  /\ fileTasks' = fT
                /\ fileArchived' = fA
                /\ IF fT.kind = "undecodable"
                   THEN \* the first json.load raises: nothing is assigned
                        /\ UNCHANGED store
                        /\ pc' = "crashed"
                        /\ last' = Label("carregar", 0, "erro")
                   ELSE IF fA.kind = "undecodable"
                   THEN \* the second json.load raises: TASKS is assigned already
                        /\ TASKS' = ler_json(fT)
                        /\ UNCHANGED <<ARCHIVED_TASKS, ID_COUNTER>>
                        /\ pc' = "crashed"
                        /\ last' = Label("carregar", 0, "erro")
                   ELSE /\ TASKS' = ler_json(fT)
                        /\ ARCHIVED_TASKS' = ler_json(fA)
                        /\ ID_COUNTER' = max_id + 1
                        /\ pc' = "sweep"
                        /\ last' = Label("carregar", 0, "ok")
    /\ out' = <<>>
    /\ UNCHANGED clock

\* a save that writes the archive file only
salvar_dados_so_arquivo(ts, as) ==
    /\ fileArchived' = JsonDump(as)
    /\ UNCHANGED fileTasks

\* salvar_dados(): both files overwritten with the given lists
salvar_dados(ts, as) ==
    /\ fileTasks' = JsonDump(ts)
    /\ fileArchived' = JsonDump(as)

\* the id taken from the length of the active list instead of the counter
gerar_id_len == Len(TASKS) + 1

\* gerar_id(): the id handed out
gerar_id == ID_COUNTER

-----------------------------------------------------------------------------
(* Menu option 1.                                                          *)

\* origem.title(), with the special case for "Chamado do Sistema"
NormalizarOrigem(origem) ==
    LET origem_norm == title(origem)
    IN  IF lower(origem_norm) \in ChamadoAliases THEN ChamadoDoSistema ELSE origem_norm

NovaTarefa(titulo, descricao, prioridade, origem_norm) ==
    [id |-> gerar_id, titulo |-> titulo, descricao |-> descricao,
     prioridade |-> prioridade, status |-> "Pendente", origem |-> origem_norm,
     data_criacao |-> agora_iso, data_conclusao |-> None]

criar_tarefa(in_titulo, in_descricao, in_prioridade, in_origem) ==
    /\ pc = "menu"
    /\ LET titulo == strip(in_titulo)
           descricao == strip(in_descricao)
           prioridade == capitalize(strip(in_prioridade))
           origem_norm == NormalizarOrigem(strip(in_origem))
       IN  IF titulo = <<>>
           THEN /\ last' = Label("criar", 0, "titulo_obrigatorio")
                /\ UNCHANGED store
           ELSE IF ~validar_prioridade(prioridade)
           THEN /\ last' = Label("criar", 0, "prioridade_invalida")
                /\ UNCHANGED store
           ELSE IF ~validar_origem(origem_norm)
           THEN /\ last' = Label("criar", 0, "origem_invalida")
                /\ UNCHANGED store
           ELSE /\ TASKS' = Append(TASKS, NovaTarefa(titulo, descricao, prioridade, origem_norm))
                /\ ID_COUNTER' = ID_COUNTER + 1
                /\ last' = Label("criar", gerar_id, "ok")
                /\ UNCHANGED ARCHIVED_TASKS
    /\ out' = <<>>
    /\ UNCHANGED <<fileTasks, fileArchived, clock, pc>>

\* index in TASKS of the first task with the id, 0 when there is none
encontrar_tarefa_por_id(tid) ==
    LET hits == {i \in 1..Len(TASKS) : TASKS[i].id = tid}
    IN  IF hits = {} THEN 0 ELSE CHOOSE i \in hits : \A j \in hits : i <= j

-----------------------------------------------------------------------------
(* Menu option 2.                                                          *)

\* the status test left out: every active task is a candidate
Pendentes_todas == 1..Len(TASKS)

\* indices of the tasks that are Pendente, in list order
Pendentes == {i \in 1..Len(TASKS) : TASKS[i].status = "Pendente"}

MinOf(S) == CHOOSE m \in S : \A x \in S : m <= x

\* for pr in PRIORITY_ORDER: for t in pendentes: first match; 0 when none matches
RECURSIVE PrimeiraPorPrioridade(_, _)
PrimeiraPorPrioridade(pendentes, k) ==
    IF k > Len(PRIORITY_ORDER) THEN 0
    ELSE LET m == {i \in pendentes : TASKS[i].prioridade = PRIORITY_ORDER[k]}
         IN  IF m # {} THEN MinOf(m) ELSE PrimeiraPorPrioridade(pendentes, k + 1)

\* the first pending task, whatever its priority
Selecionada_primeira == MinOf(Pendentes)

\* index of the task verificar_urgencia selects
Selecionada ==
    LET s == PrimeiraPorPrioridade(Pendentes, 1)
    IN  IF s # 0 THEN s ELSE MinOf(Pendentes)

verificar_urgencia ==
    /\ pc = "menu"
    /\ IF Pendentes = {}
       THEN /\ last' = Label("verificar", 0, "sem_pendentes")
            /\ out' = <<>>
            /\ UNCHANGED store
       ELSE /\ TASKS' = [TASKS EXCEPT ![Selecionada].status = "Fazendo"]
            /\ last' = Label("verificar", TASKS[Selecionada].id, "ok")
            /\ out' = <<mostrar_detalhes_tarefa(TASKS'[Selecionada])>>
            /\ UNCHANGED <<ARCHIVED_TASKS, ID_COUNTER>>
    /\ UNCHANGED <<fileTasks, fileArchived, clock, pc>>

-----------------------------------------------------------------------------
(* Menu option 3.                                                          *)

\* a variant that stores the typed priority first and validates it afterwards
atualizar_prioridade_grava_antes(in_tid, in_nova) ==
    /\ pc = "menu"
    /\ IF ~int_ok(in_tid)
       THEN /\ last' = Label("atualizar", 0, "id_invalido")
            /\ UNCHANGED store
       ELSE LET tid == int_val(in_tid)
                t == encontrar_tarefa_por_id(tid)
                nova == capitalize(strip(in_nova))
            IN  IF t = 0
                THEN /\ last' = Label("atualizar", tid, "nao_encontrada")
                     /\ UNCHANGED store
                ELSE /\ TASKS' = [TASKS EXCEPT ![t].prioridade = nova]
                     /\ last' = Label("atualizar", tid,
                                      IF validar_prioridade(nova) THEN "ok"
                                      ELSE "prioridade_invalida")
                     /\ UNCHANGED <<ARCHIVED_TASKS, ID_COUNTER>>
    /\ out' = <<>>
    /\ UNCHANGED <<fileTasks, fileArchived, clock, pc>>

atualizar_prioridade(in_tid, in_nova) ==
    /\ pc = "menu"
    /\ IF ~int_ok(in_tid)
       THEN /\ last' = Label("atualizar", 0, "id_invalido")
            /\ UNCHANGED store
       ELSE LET tid == int_val(in_tid)
                t == encontrar_tarefa_por_id(tid)
                nova == capitalize(strip(in_nova))
            IN  IF t = 0
                THEN /\ last' = Label("atualizar", tid, "nao_encontrada")
                     /\ UNCHANGED store
                ELSE IF ~validar_prioridade(nova)
                THEN /\ last' = Label("atualizar", tid, "prioridade_invalida")
                     /\ UNCHANGED store
                ELSE /\ TASKS' = [TASKS EXCEPT ![t].prioridade = nova]
                     /\ last' = Label("atualizar", tid, "ok")
                     /\ UNCHANGED <<ARCHIVED_TASKS, ID_COUNTER>>
    /\ out' = <<>>
    /\ UNCHANGED <<fileTasks, fileArchived, clock, pc>>

-----------------------------------------------------------------------------
(* Menu option 4.                                                          *)

\* the guard left out
JaConcluida_nunca(t) == FALSE

\* the guard that reports "Tarefa já está concluída."
JaConcluida(t) == TASKS[t].status = "Concluída"

\* the task once concluir_tarefa has stamped it
Concluida(t) == [t EXCEPT !.data_conclusao = agora_iso, !.status = "Concluída"]

concluir_tarefa(in_tid) ==
    /\ pc = "menu"
    /\ IF ~int_ok(in_tid)
       THEN /\ last' = Label("concluir", 0, "id_invalido")
            /\ UNCHANGED store
       ELSE LET tid == int_val(in_tid)
                t == encontrar_tarefa_por_id(tid)
            IN  IF t = 0
                THEN /\ last' = Label("concluir", tid, "nao_encontrada")
                     /\ UNCHANGED store
                ELSE IF JaConcluida(t)
                THEN /\ last' = Label("concluir", tid, "ja_concluida")
                     /\ UNCHANGED store
                ELSE /\ TASKS' = [TASKS EXCEPT ![t] = Concluida(TASKS[t])]
                     /\ last' = Label("concluir", tid, "ok")
                     /\ UNCHANGED <<ARCHIVED_TASKS, ID_COUNTER>>
    /\ out' = <<>>
    /\ UNCHANGED <<fileTasks, fileArchived, clock, pc>>

-----------------------------------------------------------------------------
(* Menu option 5, and the startup sweep of main().                         *)

\* the same test with dt <= limite
Antiga_inclusive(t, agora) ==
    /\ t.status = "Concluída"
    /\ t.data_conclusao # None
    /\ parse_iso(t.data_conclusao) # None
    /\ parse_iso(t.data_conclusao)[1] <= agora - Retention

\* the status test left out: any task with an old completion date is due
Antiga_sem_status(t, agora) ==
    /\ t.data_conclusao # None
    /\ parse_iso(t.data_conclusao) # None
    /\ parse_iso(t.data_conclusao)[1] < agora - Retention

\* the test that puts a task in a_mover
Antiga(t, agora) ==
    /\ t.status = "Concluída"
    /\ t.data_conclusao # None
    /\ parse_iso(t.data_conclusao) # None
    /\ parse_iso(t.data_conclusao)[1] < agora - Retention

a_mover(agora) == SelectSeq(TASKS, LAMBDA t : Antiga(t, agora))

\* the filter with "not" forgotten
Restantes_invertida(mover) == SelectSeq(TASKS, LAMBDA t : t \in Range(mover))

\* the active list left as it was
Restantes_todas(mover) == TASKS

\* TASKS = [t for t in TASKS if t not in a_mover]
Restantes(mover) == SelectSeq(TASKS, LAMBDA t : t \notin Range(mover))

\* for t in a_mover: ARCHIVED_TASKS.append(t)
Arquivadas(mover) == ARCHIVED_TASKS \o mover

\* the steps 1 to 3 change the lists in memory, then salvar_dados() runs; when
\* a write raises, the exception leaves the sweep: main() reports it at
\* option 5 and ends with it at the startup sweep, which is outside the try
arquivar_tarefas_antigas(onde, como) ==
    /\ pc \in {"sweep", "menu"}
    /\ LET mover == a_mover(clock)
       IN  IF mover = <<>>
           THEN /\ last' = Label("arquivar", 0, "nada")
                /\ pc' = "menu"
                /\ UNCHANGED <<store, fileTasks, fileArchived>>
           ELSE /\ ARCHIVED_TASKS' = Arquivadas(mover)
                /\ TASKS' = Restantes(mover)
                /\ UNCHANGED ID_COUNTER
                /\ IF onde = "nenhuma"
                   THEN /\ salvar_dados(TASKS', ARCHIVED_TASKS')
                        /\ last' = Label("arquivar", Len(mover), "ok")
                        /\ pc' = "menu"
                   ELSE /\ salvar_dados_falha(TASKS', ARCHIVED_TASKS', onde, como)
                        /\ last' = Label("arquivar", Len(mover), "erro")
                        /\ pc' = IF pc = "sweep" THEN "crashed" ELSE "menu"
    /\ out' = <<>>
    /\ UNCHANGED clock

-----------------------------------------------------------------------------
(* Menu option 6.                                                          *)

\* a deletion that also wipes the completion date
Excluida_limpa(t) == [t EXCEPT !.status = "Excluída", !.data_conclusao = None]

\* the task once excluir_tarefa has marked it
Excluida(t) == [t EXCEPT !.status = "Excluída"]

excluir_tarefa(in_tid) ==
    /\ pc = "menu"
    /\ IF ~int_ok(in_tid)
       THEN /\ last' = Label("excluir", 0, "id_invalido")
            /\ UNCHANGED store
       ELSE LET tid == int_val(in_tid)
                t == encontrar_tarefa_por_id(tid)
            IN  IF t = 0
                THEN /\ last' = Label("excluir", tid, "nao_encontrada")
                     /\ UNCHANGED store
                ELSE /\ TASKS' = [TASKS EXCEPT ![t] = Excluida(TASKS[t])]
                     /\ last' = Label("excluir", tid, "ok")
                     /\ UNCHANGED <<ARCHIVED_TASKS, ID_COUNTER>>
    /\ out' = <<>>
    /\ UNCHANGED <<fileTasks, fileArchived, clock, pc>>

-----------------------------------------------------------------------------
(* The wall clock advances between two handlers.                           *)

Tick(d) ==
    /\ clock' = clock + d
    /\ last' = Label("tick", 0, "tick")
    /\ out' = <<>>
    /\ UNCHANGED <<store, fileTasks, fileArchived, pc>>

-----------------------------------------------------------------------------
(* Menu options 7 and 8.                                                   *)

relatorio_tarefas ==
    /\ pc = "menu"
    /\ out' = [i \in 1..Len(TASKS) |-> mostrar_detalhes_tarefa(TASKS[i])]
    /\ last' = Label("relatorio", 0, IF TASKS = <<>> THEN "vazio" ELSE "ok")
    /\ UNCHANGED <<store, fileTasks, fileArchived, clock, pc>>

\* the filter left out: every archived record is listed
NaoExcluida_todas(t) == TRUE

\* t.get("status") != "Excluída"
NaoExcluida(t) == t.status # "Excluída"

arquivadas_validas == SelectSeq(ARCHIVED_TASKS, NaoExcluida)

relatorio_arquivadas ==
    /\ pc = "menu"
    /\ out' = [i \in 1..Len(arquivadas_validas) |->
                  mostrar_detalhes_tarefa(arquivadas_validas[i])]
    /\ last' = Label("relatorio_arquivadas", 0,
                     IF arquivadas_validas = <<>> THEN "vazio" ELSE "ok")
    /\ UNCHANGED <<store, fileTasks, fileArchived, clock, pc>>

-----------------------------------------------------------------------------
(* Menu options 9 and 0, and the next start of the program.                *)

\* option 9: an exception of the save is caught by main() and the menu returns
salvar_agora(onde, como) ==
    /\ pc = "menu"
    /\ IF onde = "nenhuma"
       THEN /\ salvar_dados(TASKS, ARCHIVED_TASKS)
            /\ last' = Label("salvar", 0, "ok")
       ELSE /\ salvar_dados_falha(TASKS, ARCHIVED_TASKS, onde, como)
            /\ last' = Label("salvar", 0, "erro")
    /\ out' = <<>>
    /\ UNCHANGED <<store, clock, pc>>

\* an exit that leaves the loop whether or not the save went through
sair_sem_confirmar(onde, como) ==
    /\ pc = "menu"
    /\ IF onde = "nenhuma"
       THEN /\ salvar_dados(TASKS, ARCHIVED_TASKS)
            /\ last' = Label("sair", 0, "ok")
       ELSE /\ salvar_dados_falha(TASKS, ARCHIVED_TASKS, onde, como)
            /\ last' = Label("sair", 0, "erro")
    /\ pc' = "exit"
    /\ out' = <<>>
    /\ UNCHANGED <<store, clock>>

\* option 0: save, then exit(0); an exception of the save skips the exit
sair(onde, como) ==
    /\ pc = "menu"
    /\ IF onde = "nenhuma"
       THEN /\ salvar_dados(TASKS, ARCHIVED_TASKS)
            /\ pc' = "exit"
            /\ last' = Label("sair", 0, "ok")
       ELSE /\ salvar_dados_falha(TASKS, ARCHIVED_TASKS, onde, como)
            /\ pc' = "menu"
            /\ last' = Label("sair", 0, "erro")
    /\ out' = <<>>
    /\ UNCHANGED <<store, clock>>

\* the maintenance helper, which main() never calls: a script that imported
\* the module drops the archived records marked Excluída and saves, whether
\* or not anything has been loaded; the function tests nothing
limpar_tarefas_excluidas_do_arquivo_de_arquivadas(onde, como) ==
    /\ pc \in {"load", "sweep", "menu"}
    /\ ARCHIVED_TASKS' = arquivadas_validas
    /\ IF onde = "nenhuma"
       THEN /\ salvar_dados(TASKS, ARCHIVED_TASKS')
            /\ last' = Label("limpar", 0, "ok")
       ELSE /\ salvar_dados_falha(TASKS, ARCHIVED_TASKS', onde, como)
            /\ last' = Label("limpar", 0, "erro")
    /\ out' = <<>>
    /\ UNCHANGED <<TASKS, ID_COUNTER, clock, pc>>

\* Ctrl-C at the menu prompt: KeyboardInterrupt is raised outside the try and
\* the program ends with nothing saved
interromper ==
    /\ pc = "menu"
    /\ pc' = "aborted"
    /\ last' = Label("interromper", 0, "ok")
    /\ out' = <<>>
    /\ UNCHANGED <<store, fileTasks, fileArchived, clock>>

\* the program is started again: fresh globals, the files as they were left
Reiniciar ==
    /\ pc \in {"exit", "aborted", "crashed"}
    /\ TASKS' = <<>>
    /\ ARCHIVED_TASKS' = <<>>
    /\ ID_COUNTER' = 1
    /\ pc' = "load"
    /\ last' = Label("init", 0, "init")
    /\ out' = <<>>
    /\ UNCHANGED <<fileTasks, fileArchived, clock>>

-----------------------------------------------------------------------------
(* What the user types.                                                    *)

TituloInputs == { <<"F","i","x">> }

DescricaoInputs == { <<>> }

PrioridadeInputs == { <<"u","r","g","e","n","t","e">> }

NovaPrioridadeInputs == { <<"B","A","I","X","A">> }

OrigemInputs == { <<"t","e","l","e","f","o","n","e">> }

\* every write goes through
SemFalhas == { "nenhuma" }

\* a save that goes through, and every way one of its two writes can fail
Escritas == { <<"nenhuma", "recusado">> } \cup ((Falhas \ SemFalhas) \X Cortes)

\* the ids 1..MaxTasks as typed
IdInputs == { <<DigitChars[k + 1]>> : k \in 1..MaxTasks }

\* the retention period passes, then one more second
TickSteps == { Retention, 1 }

\* the instants the model lets the clock reach
ClockValues == { 0, Retention, Retention + 1 }

NumTasks == Len(TASKS) + Len(ARCHIVED_TASKS)

Next ==
    \/ (\E onde \in SemFalhas : carregar_dados(onde, "recusado")) /\ Observe
    \/ /\ NumTasks < MaxTasks
       /\ \E ti \in TituloInputs, de \in DescricaoInputs,
             pr \in PrioridadeInputs, og \in OrigemInputs : criar_tarefa(ti, de, pr, og)
       /\ Observe
    \/ verificar_urgencia /\ Observe
    \/ (\E pr \in NovaPrioridadeInputs : atualizar_prioridade(<<"1">>, pr)) /\ Observe
    \/ (\E id \in IdInputs : concluir_tarefa(id)) /\ Observe
    \/ (\E onde \in SemFalhas : arquivar_tarefas_antigas(onde, "recusado")) /\ Observe
    \/ (\E id \in IdInputs : excluir_tarefa(id)) /\ Observe
    \/ /\ pc = "menu"
       /\ \E d \in TickSteps : clock + d \in ClockValues /\ Tick(d)
       /\ Observe

Spec == Init /\ [][Next]_vars

-----------------------------------------------------------------------------
(* The urgency pick over every priority level: no time passes.             *)

PrioridadeInputsUrg ==
    { <<"b","a","i","x","a">>, <<"U","r","g","e","n","t","e">>,
      <<"A","L","T","A">>, <<"m","é","d","i","a">> }

NextUrg ==
    \/ (\E onde \in SemFalhas : carregar_dados(onde, "recusado")) /\ Observe
    \/ (\E onde \in SemFalhas : arquivar_tarefas_antigas(onde, "recusado")) /\ Observe
    \/ /\ NumTasks < MaxTasksUrg
       /\ \E ti \in TituloInputs, de \in DescricaoInputs,
             pr \in PrioridadeInputsUrg, og \in OrigemInputs : criar_tarefa(ti, de, pr, og)
       /\ Observe
    \/ verificar_urgencia /\ Observe

SpecUrg == Init /\ [][NextUrg]_vars

-----------------------------------------------------------------------------
(* Free text at the prompts: spellings, letter case, blanks, wrong values. *)

TituloInputsText == { <<>>, <<" ">>, <<" ","F","i","x">> }

PrioridadeInputsText ==
    { <<"u","r","g","e","n","t","e">>, <<"A","L","T","A">>, <<" ","m","é","d","i","a"," ">>,
      <<"B","a","i","x","a">>, <<"C","r","í","t","i","c","a">>, <<>> }

OrigemInputsText ==
    { <<"e","-","m","a","i","l">>, <<"E","-","m","a","i","l">>,
      <<"T","E","L","E","F","O","N","E">>, <<"c","h","a","m","a","d","o">>,
      <<"c","h","a","m","a","d","o","d","o","s","i","s","t","e","m","a">>,
      <<"C","h","a","m","a","d","o"," ","d","o"," ","S","i","s","t","e","m","a">>,
      <<"f","a","x">>, <<>> }

IdInputsText == { <<"1">>, <<" ","2"," ">>, <<"-","1">>, <<"x">>, <<>> }

NextText ==
    \/ (\E onde \in SemFalhas : carregar_dados(onde, "recusado")) /\ Observe
    \/ (\E onde \in SemFalhas : arquivar_tarefas_antigas(onde, "recusado")) /\ Observe
    \/ /\ NumTasks < MaxTasks
       /\ \E ti \in TituloInputsText, de \in DescricaoInputs,
             pr \in PrioridadeInputsText, og \in OrigemInputsText : criar_tarefa(ti, de, pr, og)
       /\ Observe
    \/ (\E id \in IdInputsText, pr \in PrioridadeInputsText : atualizar_prioridade(id, pr))
          /\ Observe

SpecText == Init /\ [][NextText]_vars

-----------------------------------------------------------------------------
(* Requests the handlers refuse, next to requests they accept.             *)

TituloInputsRej == { <<>>, <<"F","i","x">> }

PrioridadeInputsRej ==
    { <<"a","l","t","a">>, <<"b","a","i","x","a">>, <<"C","r","í","t","i","c","a">> }

OrigemInputsRej == { <<"t","e","l","e","f","o","n","e">>, <<"f","a","x">> }

\* the first two ids, an id no task has, and text that is no number
IdInputsRej == { <<"1">>, <<"2">>, <<"9">>, <<"x">> }

NextRej ==
    \/ (\E onde \in SemFalhas : carregar_dados(onde, "recusado")) /\ Observe
    \/ (\E onde \in SemFalhas : arquivar_tarefas_antigas(onde, "recusado")) /\ Observe
    \/ /\ NumTasks < MaxTasks
       /\ \E ti \in TituloInputsRej, de \in DescricaoInputs,
             pr \in PrioridadeInputsRej, og \in OrigemInputsRej : criar_tarefa(ti, de, pr, og)
       /\ Observe
    \/ (\E id \in IdInputsRej, pr \in PrioridadeInputsRej : atualizar_prioridade(id, pr))
          /\ Observe
    \/ (\E id \in IdInputsRej : concluir_tarefa(id)) /\ Observe
    \/ (\E id \in IdInputsRej : excluir_tarefa(id)) /\ Observe

SpecRej == Init /\ [][NextRej]_vars

-----------------------------------------------------------------------------
(* Several runs of the program over the same two files.                    *)

NextSess ==
    \/ (\E e \in Escritas : carregar_dados(e[1], e[2])) /\ Observe
    \/ (\E e \in Escritas : arquivar_tarefas_antigas(e[1], e[2])) /\ Observe
    \/ /\ NumTasks < MaxTasks
       /\ \E ti \in TituloInputs, de \in DescricaoInputs,
             pr \in PrioridadeInputs, og \in OrigemInputs : criar_tarefa(ti, de, pr, og)
       /\ Observe
    \/ (\E id \in IdInputs : concluir_tarefa(id)) /\ Observe
    \/ /\ pc = "menu"
       /\ \E d \in TickSteps : clock + d \in ClockValues /\ Tick(d)
       /\ Observe
    \/ (\E onde \in SemFalhas : salvar_agora(onde, "recusado")) /\ Observe
    \/ (\E e \in Escritas : sair(e[1], e[2])) /\ Observe
    \/ interromper /\ Observe
    \/ Reiniciar /\ Observe

SpecSess == Init /\ [][NextSess]_vars

-----------------------------------------------------------------------------
(* The execution time shown for one task, over many spans.                 *)

\* when the task was created: midnight, just after, late in the day
DurStarts == { 0, 1, 3599, 86399 }

\* the time between creation and the menu: none, around a minute, an hour
\* and a day, and 1d 2h 3m 4s
DurSpans ==
    { 0, 1, 59, 60, 61, 3599, 3600, 3661, 86399, 86400, 86401, 93784, 694861 }

\* a run in which a task was created at T and the menu is shown d later
InitDur ==
    /\ \E T \in DurStarts, d \in DurSpans :
          /\ TASKS = << [id |-> 1, titulo |-> <<"F","i","x">>, descricao |-> <<>>,
                         prioridade |-> Alta, status |-> "Pendente", origem |-> Telefone,
                         data_criacao |-> isoformat(T), data_conclusao |-> None] >>
          /\ clock = T + d
    /\ ARCHIVED_TASKS = <<>>
    /\ ID_COUNTER = 2
    /\ fileTasks = JsonDump(<<>>)
    /\ fileArchived = JsonDump(<<>>)
    /\ pc = "menu"
    /\ last = Label("tick", 0, "tick")
    /\ out = <<>>
    /\ ever = {}
    /\ salvo = NaoSalvo

NextDur ==
    \/ verificar_urgencia /\ Observe
    \/ concluir_tarefa(<<"1">>) /\ Observe
    \/ excluir_tarefa(<<"1">>) /\ Observe
    \/ relatorio_tarefas /\ Observe

SpecDur == InitDur /\ [][NextDur]_vars

-----------------------------------------------------------------------------
(* A start over an archive file that is already on disk, written by hand   *)
(* or by other software: it may hold records marked Excluída.              *)

RegistroArquivado(id, status) ==
    [id |-> id, titulo |-> <<"F","i","x">>, descricao |-> <<>>,
     prioridade |-> Alta, status |-> status, origem |-> Telefone,
     data_criacao |-> isoformat(0), data_conclusao |-> isoformat(0)]

RegistrosArquivados ==
    { RegistroArquivado(1, "Concluída"), RegistroArquivado(2, "Excluída"),
      RegistroArquivado(3, "Concluída"), RegistroArquivado(4, "Excluída") }

\* the lists of distinct records an archive file may hold, in every order
ArquivosEmDisco ==
    { ts \in UNION { [1..n -> RegistrosArquivados] : n \in 0..Cardinality(RegistrosArquivados) } :
        \A i, j \in 1..Len(ts) : ts[i] = ts[j] => i = j }

InitArq ==
    /\ TASKS = <<>>
    /\ ARCHIVED_TASKS = <<>>
    /\ ID_COUNTER = 1
    /\ fileTasks = MissingFile
    /\ \E ts \in ArquivosEmDisco : fileArchived = JsonDump(ts)
    /\ clock = 0
    /\ pc = "load"
    /\ last = Label("init", 0, "init")
    /\ out = <<>>
    /\ ever = {}
    /\ salvo = NaoSalvo

NextArq ==
    \/ (\E onde \in SemFalhas : carregar_dados(onde, "recusado")) /\ Observe
    \/ (\E onde \in SemFalhas : arquivar_tarefas_antigas(onde, "recusado")) /\ Observe
    \/ (\E id \in IdInputs : excluir_tarefa(id)) /\ Observe
    \/ relatorio_tarefas /\ Observe
    \/ relatorio_arquivadas /\ Observe

SpecArq == InitArq /\ [][NextArq]_vars

\* the same start, with the maintenance helper called from outside main()
NextManut ==
    \/ NextArq
    \/ (\E e \in Escritas :
           limpar_tarefas_excluidas_do_arquivo_de_arquivadas(e[1], e[2])) /\ Observe

SpecManut == InitArq /\ [][NextManut]_vars

-----------------------------------------------------------------------------
(* Properties.                                                             *)

Todas == TASKS \o ARCHIVED_TASKS

IdsOf(ts) == {ts[i].id : i \in 1..Len(ts)}

CountId(ts, id) == Cardinality({i \in 1..Len(ts) : ts[i].id = id})

ById(ts, id) == ts[CHOOSE i \in 1..Len(ts) : ts[i].id = id]

files == <<fileTasks, fileArchived>>

\* C1: the ids of the tasks of both lists are pairwise distinct, and a
\* successful create appends a task whose id is greater than every id
\* present before it.
C1_UniqueIncreasingIds ==
    /\ [](\A i, j \in 1..Len(Todas) : i # j => Todas[i].id # Todas[j].id)
    /\ [][ (last'.op = "criar" /\ last'.res = "ok") =>
             /\ Len(TASKS') = Len(TASKS) + 1
             /\ TASKS'[Len(TASKS')].id = last'.arg
             /\ \A id \in IdsOf(Todas) : id < TASKS'[Len(TASKS')].id ]_vars

C1_Witness ==
    /\ last = Label("criar", 2, "ok")
    /\ Len(ARCHIVED_TASKS) = 1
    /\ ARCHIVED_TASKS[1].id = 1
    /\ Len(TASKS) = 1

\* C2: every task is in exactly one of the two lists, and a task that is in
\* a list before a step is in exactly one of them after it.
C2_ExactlyOneCollection ==
    /\ [](\A id \in IdsOf(Todas) : CountId(TASKS, id) + CountId(ARCHIVED_TASKS, id) = 1)
    /\ [][ \A id \in IdsOf(Todas) :
             CountId(TASKS', id) + CountId(ARCHIVED_TASKS', id) = 1 ]_vars

C2_Witness ==
    /\ last = Label("arquivar", 1, "ok")
    /\ Len(ARCHIVED_TASKS) = 1
    /\ Len(TASKS) = 1
    /\ TASKS[1].status = "Excluída"

\* C3 (as claimed): once a task has a completion date, no step changes it.
C3_CompletedAtNeverChanges ==
    [][ \A id \in IdsOf(Todas) :
          (ById(Todas, id).data_conclusao # None /\ id \in IdsOf(Todas'))
            => ById(Todas', id).data_conclusao = ById(Todas, id).data_conclusao ]_vars

\* C4 (as claimed): once a task is Excluída, no step changes its status.
C4_ExcluidaIsTerminal ==
    [][ \A id \in IdsOf(Todas) :
          (ById(Todas, id).status = "Excluída" /\ id \in IdsOf(Todas'))
            => ById(Todas', id).status = "Excluída" ]_vars

\* C5: a task has a completion date exactly when its status has been
\* Concluída at some point.
C5_CompletedAtIffEverConcluida ==
    \A i \in 1..Len(Todas) : (Todas[i].data_conclusao # None) <=> (Todas[i].id \in ever)

C5_Witness ==
    /\ Len(TASKS) = 2
    /\ TASKS[1].status = "Excluída"
    /\ TASKS[1].data_conclusao # None
    /\ TASKS[2].status = "Excluída"
    /\ TASKS[2].data_conclusao = None

\* C6: a complete on an active id leaves the task Concluída with a date; a
\* complete on a task that is already Concluída, right after the first one
\* or after time has passed, reports "already completed" and changes neither
\* the lists, the counter nor the files.
C6_CompleteTwice ==
    /\ [][ (last'.op = "concluir" /\ last'.res \in {"ok", "ja_concluida"}) =>
             /\ last'.arg \in IdsOf(TASKS')
             /\ ById(TASKS', last'.arg).status = "Concluída"
             /\ ById(TASKS', last'.arg).data_conclusao # None ]_vars
    /\ [][ (/\ last'.op = "concluir"
            /\ last'.arg \in IdsOf(TASKS)
            /\ ById(TASKS, last'.arg).status = "Concluída") =>
             /\ last'.res = "ja_concluida"
             /\ UNCHANGED <<store, files>> ]_vars
    /\ [][ (/\ last.op = "concluir" /\ last.res \in {"ok", "ja_concluida"}
            /\ last'.op = "concluir" /\ last'.arg = last.arg) =>
             /\ last'.res = "ja_concluida"
             /\ UNCHANGED <<store, files>> ]_vars

C6_Witness ==
    /\ last.op = "concluir"
    /\ last.res = "ja_concluida"
    /\ parse_iso(ById(TASKS, last.arg).data_conclusao)[1] < clock

\* the priority levels, most urgent first
RankOf(p) ==
    CASE p = Urgente -> 1 [] p = Alta -> 2 [] p = Media -> 3 [] p = Baixa -> 4 [] OTHER -> 5

\* i is the pending task of the best level, the earliest in the list among those
MostUrgent(i) ==
    /\ TASKS[i].status = "Pendente"
    /\ \A j \in 1..Len(TASKS) :
         TASKS[j].status = "Pendente" =>
           \/ RankOf(TASKS[i].prioridade) < RankOf(TASKS[j].prioridade)
           \/ RankOf(TASKS[i].prioridade) = RankOf(TASKS[j].prioridade) /\ i <= j

\* C7: the urgency pick changes nothing when no task is Pendente; otherwise
\* it sets to Fazendo the status of the earliest Pendente task of the most
\* urgent level that has one, and changes nothing else.
C7_SelectNextUrgent ==
    [][ last'.op = "verificar" =>
          IF \A i \in 1..Len(TASKS) : TASKS[i].status # "Pendente"
          THEN /\ last'.res = "sem_pendentes"
               /\ UNCHANGED <<store, files>>
          ELSE \E i \in 1..Len(TASKS) :
                 /\ MostUrgent(i)
                 /\ TASKS' = [TASKS EXCEPT ![i].status = "Fazendo"]
                 /\ last' = Label("verificar", TASKS[i].id, "ok")
                 /\ UNCHANGED <<ARCHIVED_TASKS, ID_COUNTER, files>> ]_vars

C7_Witness ==
    /\ Len(TASKS) = 3
    /\ TASKS[1].prioridade = Baixa /\ TASKS[1].status = "Pendente"
    /\ TASKS[2].prioridade = Urgente /\ TASKS[2].status = "Fazendo"
    /\ TASKS[3].prioridade = Alta /\ TASKS[3].status = "Pendente"
    /\ last = Label("verificar", 2, "ok")

\* completed strictly more than the retention period before the clock
CompletedBeforeLimit(t) ==
    /\ t.status = "Concluída"
    /\ Len(t.data_conclusao) = 2
    /\ t.data_conclusao[1] * SecondsPerDay + t.data_conclusao[2]
         + RetentionDays * SecondsPerDay < clock

\* C8: the sweep moves to the archive, in order, exactly the active tasks
\* that are Concluída with a completion date strictly earlier than the clock
\* minus 7 days; the other active tasks and the archived ones stay as they are.
C8_SweepMovesExactlyAged ==
    [][ last'.op = "arquivar" =>
          /\ TASKS' = SelectSeq(TASKS, LAMBDA t : ~CompletedBeforeLimit(t))
          /\ ARCHIVED_TASKS' =
               ARCHIVED_TASKS \o SelectSeq(TASKS, LAMBDA t : CompletedBeforeLimit(t))
          /\ last'.arg = Len(ARCHIVED_TASKS') - Len(ARCHIVED_TASKS) ]_vars

C8_Witness ==
    /\ last = Label("arquivar", 1, "ok")
    /\ Len(ARCHIVED_TASKS) = 1
    /\ Len(TASKS) = 1
    /\ TASKS[1].status = "Concluída"
    /\ parse_iso(TASKS[1].data_conclusao)[1] = Retention
    /\ parse_iso(ARCHIVED_TASKS[1].data_conclusao)[1] = 0
    /\ clock = Retention + 1

\* C9: a sweep that follows a sweep at the same clock moves nothing and
\* changes neither list nor file; a task in the archive stays there once and
\* is never in the active list again.
C9_SweepIdempotent ==
    /\ [][ (last.op = "arquivar" /\ last'.op = "arquivar") =>
             /\ last'.res = "nada"
             /\ UNCHANGED <<store, files>> ]_vars
    /\ [][ \A id \in IdsOf(ARCHIVED_TASKS) :
             /\ CountId(ARCHIVED_TASKS', id) = 1
             /\ CountId(TASKS', id) = 0 ]_vars

C9_Witness ==
    /\ last = Label("arquivar", 0, "nada")
    /\ Len(ARCHIVED_TASKS) = 1
    /\ Len(TASKS) = 1
    /\ fileTasks = JsonDump(TASKS)
    /\ fileArchived = JsonDump(ARCHIVED_TASKS)

\* C10 (as claimed): every stored priority is one of Urgente, Alta, Média,
\* Baixa and every stored origin is one of E-mail, Telefone, Chamado do
\* Sistema; no step changes the origin of a task.
C10_CanonicalPriorityAndOrigin ==
    /\ [](\A i \in 1..Len(Todas) :
            /\ Todas[i].prioridade \in {Urgente, Alta, Media, Baixa}
            /\ Todas[i].origem \in {Email, Telefone, ChamadoDoSistema})
    /\ [][ \A id \in IdsOf(Todas) :
             id \in IdsOf(Todas') => ById(Todas', id).origem = ById(Todas, id).origem ]_vars

-----------------------------------------------------------------------------
\* what a handler reports when it refuses the request
Rejeicoes ==
    { "titulo_obrigatorio", "prioridade_invalida", "origem_invalida",
      "id_invalido", "nao_encontrada", "ja_concluida" }

\* C11: a create, set-priority, complete or delete that is refused leaves the
\* active list, the archive and the id counter exactly as they were.
C11_RejectedLeavesStore ==
    [][ (/\ last'.op \in {"criar", "atualizar", "concluir", "excluir"}
         /\ last'.res \in Rejeicoes)
        => UNCHANGED store ]_vars

\* a set-priority to Crítica on an existing task was refused
C11_Witness ==
    /\ last = Label("atualizar", 1, "prioridade_invalida")
    /\ Len(TASKS) >= 1
    /\ TASKS[1].prioridade = Alta

-----------------------------------------------------------------------------
\* C12: a set-priority, complete or delete aimed at the id of an archived
\* task reports that the task was not found and changes neither the lists,
\* the id counter nor the files.
C12_ArchivedNotFound ==
    [][ (/\ last'.op \in {"atualizar", "concluir", "excluir"}
         /\ last'.arg \in IdsOf(ARCHIVED_TASKS))
        => (/\ last'.res = "nao_encontrada"
            /\ UNCHANGED <<store, fileTasks, fileArchived>>) ]_vars

\* a complete of archived task 1 was answered with "not found"
C12_Witness ==
    /\ last = Label("concluir", 1, "nao_encontrada")
    /\ Len(ARCHIVED_TASKS) >= 1
    /\ ARCHIVED_TASKS[1].id = 1

-----------------------------------------------------------------------------
\* the handlers reached from the menu
MenuOps ==
    { "criar", "verificar", "atualizar", "concluir", "excluir",
      "relatorio", "relatorio_arquivadas", "salvar", "sair" }

\* C13 (as claimed): in every run the load is the first step, the one step
\* after it is the startup sweep, and only that sweep opens the menu: no menu
\* handler runs before it.
C13_StartupOrder ==
    /\ [](/\ pc = "load" => last.op = "init"
          /\ pc = "sweep" => last.op = "carregar")
    /\ [][ /\ pc = "load" => (last'.op = "carregar" /\ pc' = "sweep")
           /\ pc = "sweep" => (last'.op = "arquivar" /\ pc' = "menu")
           /\ pc' = "menu" => pc \in {"sweep", "menu"}
           /\ last'.op \in MenuOps => pc = "menu" ]_vars

-----------------------------------------------------------------------------
\* C14: the program ends only through an exit whose save went through, and
\* when it has ended the two files hold exactly the two lists in memory; an
\* exit whose save raised returns to the menu.
C14_ExitSaves ==
    /\ [](pc = "exit" =>
            /\ last = Label("sair", 0, "ok")
            /\ fileTasks.kind = "json" /\ JsonLoad(fileTasks) = TASKS
            /\ fileArchived.kind = "json" /\ JsonLoad(fileArchived) = ARCHIVED_TASKS)
    /\ [][ (last'.op = "sair" /\ last'.res = "erro") => pc' = "menu" ]_vars

\* the program has ended with an active and an archived task on file
C14_Witness ==
    /\ pc = "exit"
    /\ Len(TASKS) >= 1
    /\ Len(ARCHIVED_TASKS) >= 1
    /\ Len(fileTasks.data) = Len(TASKS)
    /\ Len(fileArchived.data) = Len(ARCHIVED_TASKS)

-----------------------------------------------------------------------------
\* seconds of a stored timestamp
Segundos(iso) == iso[1] * SecondsPerDay + iso[2]

\* C15: every displayed task without a completion date shows no execution
\* time; one completed d seconds after its creation shows days, hours,
\* minutes and seconds that add up to d with hours below 24 and minutes and
\* seconds below 60 (1d 2h 3m 4s for 93784 seconds); showing it changes no
\* task.
C15_Duration ==
    /\ [](\A i \in 1..Len(out) :
            LET t == out[i].tarefa
                tempo == out[i].tempo
            IN  IF t.data_conclusao = None THEN tempo = None
                ELSE LET d == Segundos(t.data_conclusao) - Segundos(t.data_criacao)
                     IN  /\ Len(tempo) = 4
                         /\ tempo[1] * 86400 + tempo[2] * 3600 + tempo[3] * 60 + tempo[4] = d
                         /\ tempo[1] >= 0
                         /\ tempo[2] \in 0..23
                         /\ tempo[3] \in 0..59
                         /\ tempo[4] \in 0..59
                         /\ d = 93784 => tempo = <<1, 2, 3, 4>>)
    /\ [][ last'.op = "relatorio" =>
             /\ UNCHANGED store
             /\ Len(out') = Len(TASKS)
             /\ \A i \in 1..Len(TASKS) : out'[i].tarefa = TASKS[i] ]_vars

\* the report shows 1d 2h 3m 4s for a task completed 93784 seconds after it
\* was created late in the day
C15_Witness ==
    /\ last.op = "relatorio"
    /\ Len(out) = 1
    /\ out[1].tarefa.data_criacao = isoformat(86399)
    /\ out[1].tempo = <<1, 2, 3, 4>>

-----------------------------------------------------------------------------
\* positions of the archive whose record is not marked Excluída
Listaveis == { i \in 1..Len(ARCHIVED_TASKS) : ARCHIVED_TASKS[i].status # "Excluída" }

\* C16: the archived report shows the archived records that are not marked
\* Excluída, each once and in archive order, and leaves the lists, the id
\* counter and the files as they were: a record marked Excluída is not
\* shown and stays in the archive.
C16_ArchivedReport ==
    [][ last'.op = "relatorio_arquivadas" =>
          /\ UNCHANGED <<store, fileTasks, fileArchived>>
          /\ Len(out') = Cardinality(Listaveis)
          /\ \A i \in Listaveis :
                out'[Cardinality({j \in Listaveis : j <= i})].tarefa = ARCHIVED_TASKS[i] ]_vars

\* the report showed two of three archived records: the one marked Excluída,
\* stored between them, is not shown
C16_Witness ==
    /\ last = Label("relatorio_arquivadas", 0, "ok")
    /\ Len(ARCHIVED_TASKS) = 3
    /\ ARCHIVED_TASKS[2].status = "Excluída"
    /\ Len(out) = 2
    /\ out[1].tarefa = ARCHIVED_TASKS[1]
    /\ out[2].tarefa = ARCHIVED_TASKS[3]

-----------------------------------------------------------------------------
\* C17: a task turns Fazendo only in an urgency pick that selects it while
\* it is Pendente, a new task starts Pendente, and a task that is no longer
\* Pendente never is Pendente again.
C17_FazendoOnlyFromPendente ==
    [][ LET antes == Todas
            depois == TASKS' \o ARCHIVED_TASKS'
        IN  /\ \A id \in IdsOf(depois) \ IdsOf(antes) :
                  ById(depois, id).status = "Pendente"
            /\ \A id \in IdsOf(depois) \cap IdsOf(antes) :
                  /\ (ById(depois, id).status = "Fazendo" /\ ById(antes, id).status # "Fazendo")
                       => (/\ ById(antes, id).status = "Pendente"
                           /\ last' = Label("verificar", id, "ok"))
                  /\ ById(antes, id).status # "Pendente"
                       => ById(depois, id).status # "Pendente" ]_vars

\* the urgency pick has just turned task 2 Fazendo, next to a task that is
\* already Concluída
C17_Witness ==
    /\ last = Label("verificar", 2, "ok")
    /\ Len(TASKS) = 2
    /\ TASKS[1].status = "Concluída"
    /\ TASKS[2].status = "Fazendo"

-----------------------------------------------------------------------------
\* C18: starting from an empty store, every archived record is Concluída and
\* has a completion date, and no step changes or removes a record that is in
\* the archive: the archive only grows at its end.
C18_ArchiveFrozen ==
    /\ [](\A i \in 1..Len(ARCHIVED_TASKS) :
            /\ ARCHIVED_TASKS[i].status = "Concluída"
            /\ ARCHIVED_TASKS[i].data_conclusao # None)
    /\ [][ /\ Len(ARCHIVED_TASKS') >= Len(ARCHIVED_TASKS)
           /\ \A i \in 1..Len(ARCHIVED_TASKS) : ARCHIVED_TASKS'[i] = ARCHIVED_TASKS[i] ]_vars

\* a delete aimed at archived task 1 found nothing and the record is still
\* Concluída, with a second task archived after it
C18_Witness ==
    /\ last = Label("excluir", 1, "nao_encontrada")
    /\ Len(ARCHIVED_TASKS) = 2
    /\ ARCHIVED_TASKS[1].id = 1
    /\ ARCHIVED_TASKS[1].status = "Concluída"
    /\ ARCHIVED_TASKS[1].data_conclusao # None

-----------------------------------------------------------------------------
\* C19: a load that follows a save that went through restores the two lists
\* exactly as they were saved, and sets the id counter above every id of
\* both, so the next task created gets an id none of them has.
C19_SaveLoadRoundTrip ==
    [][ (last'.op = "carregar" /\ salvo.ok) =>
          /\ TASKS' = salvo.tasks
          /\ ARCHIVED_TASKS' = salvo.archived
          /\ \A id \in IdsOf(salvo.tasks) \cup IdsOf(salvo.archived) : ID_COUNTER' > id ]_vars

\* a run has loaded the active and the archived task an earlier run saved,
\* and the next id is 3
C19_Witness ==
    /\ last.op = "carregar"
    /\ salvo.ok
    /\ Len(TASKS) = 1
    /\ Len(ARCHIVED_TASKS) = 1
    /\ TASKS = salvo.tasks
    /\ ARCHIVED_TASKS = salvo.archived
    /\ ID_COUNTER = 3

-----------------------------------------------------------------------------
\* C20 (as claimed): a sweep that moves at least one task leaves both files
\* holding exactly the two lists as they are after the sweep, changes made
\* before it and never saved included; a sweep that moves nothing leaves the
\* files, the lists and the id counter as they were.
C20_SweepSaves_AsClaimed ==
    [][ last'.op = "arquivar" =>
          IF Len(ARCHIVED_TASKS') > Len(ARCHIVED_TASKS)
          THEN /\ fileTasks'.kind = "json"
               /\ fileArchived'.kind = "json"
               /\ JsonLoad(fileTasks') = TASKS'
               /\ JsonLoad(fileArchived') = ARCHIVED_TASKS'
          ELSE UNCHANGED <<store, fileTasks, fileArchived>> ]_vars

\* C20: a sweep that moves at least one task and whose save goes through
\* leaves both files holding exactly the two lists as they are after the
\* sweep, changes made before it and never saved included; when a write of
\* that save raises, the move stands in memory and the file written after
\* the failing one is left as it was; a sweep that moves nothing leaves the
\* files, the lists and the id counter as they were.
C20_SweepSaves ==
    [][ last'.op = "arquivar" =>
          IF Len(ARCHIVED_TASKS') > Len(ARCHIVED_TASKS)
          THEN \/ /\ last'.res = "ok"
                  /\ fileTasks'.kind = "json"
                  /\ fileArchived'.kind = "json"
                  /\ JsonLoad(fileTasks') = TASKS'
                  /\ JsonLoad(fileArchived') = ARCHIVED_TASKS'
               \/ /\ last'.res = "erro"
                  /\ Len(TASKS') + Len(ARCHIVED_TASKS') = Len(TASKS) + Len(ARCHIVED_TASKS)
                  /\ \/ fileArchived' = fileArchived
                     \/ (fileTasks' = JsonDump(TASKS') /\ fileArchived'.kind # "json")
          ELSE UNCHANGED <<store, fileTasks, fileArchived>> ]_vars

\* a sweep moved task 1 and wrote both files; task 2, created after the load
\* and not saved until then, is in the tasks file
C20_Witness ==
    /\ last = Label("arquivar", 1, "ok")
    /\ Len(TASKS) = 1
    /\ TASKS[1].id = 2
    /\ ARCHIVED_TASKS[1].id = 1
    /\ fileTasks = JsonDump(TASKS)
    /\ fileArchived = JsonDump(ARCHIVED_TASKS)

====
